---- MODULE Spec2Model ----
(***************************************************************************)
(* A model of the Helm publishing plugin: the Chart.yaml version patcher   *)
(* (chart.go), the package-path extractor (helm.go), the repository        *)
(* publisher (Repository.Push and its three backends) and the hook         *)
(* orchestrator (HelmPlugin.Execute).                                      *)
(*                                                                         *)
(* Text is a sequence of characters.  The two keys the patcher looks for   *)
(* and the marker the extractor looks for are single characters of the     *)
(* model's alphabet ("version:", "appVersion:", "saved it to:"); no other  *)
(* character of the alphabet is part of them, so a key occurs in a text    *)
(* exactly where its character does.                                       *)
(***************************************************************************)
EXTENDS Integers, Sequences, FiniteSets, TLC

VARIABLES
    data,        \* SpecPatch: the bytes of Chart.yaml on disk
    orig,        \* SpecPatch: the bytes of Chart.yaml before the first call
    version,     \* SpecPatch: the version argument
    appVersion,  \* SpecPatch: the appVersion argument
    patchErr,    \* SpecPatch: "none" before the call, else the call's error ("nil" = success)
    writes,      \* SpecPatch: number of os.WriteFile calls made
    calls,       \* SpecPatch: number of UpdateChartVersion calls made
    output,      \* SpecExtract: the text helm package printed
    exErr,       \* SpecExtract: "none" before the call, else extractPackagePath's error ("nil" = success)
    exPath,      \* SpecExtract: the path extractPackagePath returned
    req,         \* Spec: the ExecuteRequest being served (Hook, Config, DryRun, Context.Version)
    cfg,         \* Spec: Execute's cfg, req.Config with DryRun merged in
    pc,          \* Spec: where Execute stands: "idle", a step, or "done"
    hooksRun,    \* Spec: the hooks the host has executed so far, in order
    chart,       \* Spec: what ParseChart returned
    trace,       \* Spec: the external actions of the current run, in order
    resp,        \* Spec: what Execute returns in the current run: the ExecuteResponse and the error
    packagePath, \* Spec: executePostPublish's packagePath
    pushRet,     \* Spec: what Repository.Push returned
    handles,     \* Spec: the artifact file and response body Push holds open
    ctx,         \* Spec: the context Execute was given: "live" or "cancelled"
    child,       \* Spec: the step whose subprocess or request is in flight, or "none"
    logoutRet,   \* SpecLogout: what Repository.Logout returned
    validateRet  \* SpecValidate: what ValidateChart returned

patchVars == <<data, orig, version, appVersion, patchErr, writes, calls>>
patchArgs == <<orig, version, appVersion, patchErr, writes, calls>>
extractVars == <<output, exErr, exPath>>
ctxVars == <<ctx, child>>
fnVars == <<logoutRet, validateRet>>
runVars == <<req, cfg, pc, hooksRun, chart, trace, resp, packagePath, pushRet, handles,
             ctxVars, fnVars>>

vars == <<patchVars, extractVars, runVars>>

-----------------------------------------------------------------------------
(* Bounds *)

MaxLen == 5         \* longest manifest text enumerated
MaxCalls == 2       \* UpdateChartVersion calls per behaviour
MaxOut == 5         \* longest helm package output enumerated

-----------------------------------------------------------------------------
(* Characters and elementary text functions *)

KeyVersion == "version:"
KeyAppVersion == "appVersion:"
Marker == "saved it to:"
NL == "\n"

Max(S) == CHOOSE m \in S : \A k \in S : k <= m
Min(S) == CHOOSE m \in S : \A k \in S : m <= k

\* regexp \s restricted to the alphabet: the blank and the newline
IsSpace(c) == c \in {" ", NL}

\* regexp (?m)^ : at the start of the text or right after a newline
LineStart(t, i) == i = 1 \/ t[i - 1] = NL

\* index of the last character of the line position i lies on (t[i] is no newline):
\* where greedy .+ followed by (?m)$ ends
RECURSIVE EndOfLine(_, _)
EndOfLine(t, i) ==
    IF i >= Len(t) \/ t[i + 1] = NL THEN i ELSE EndOfLine(t, i + 1)

\* first index >= i holding no whitespace, Len(t)+1 when there is none:
\* where greedy \s* stops when it takes all it can
RECURSIVE SpaceRunEnd(_, _)
SpaceRunEnd(t, i) ==
    IF i > Len(t) \/ ~IsSpace(t[i]) THEN i ELSE SpaceRunEnd(t, i + 1)

\* The match of (?m)^<key>\s*.+$ that starts at position i: the index of its
\* last character, 0 when there is no match at i.  \s* is greedy and takes
\* newlines too; it gives characters back until .+ finds a character that is
\* no newline; .+ then runs to the end of that line.
MatchEnd(t, i, key) ==
    IF ~(i <= Len(t) /\ t[i] = key /\ LineStart(t, i)) THEN 0
    ELSE LET w == SpaceRunEnd(t, i + 1)
             K == {k \in (i + 1)..w : k <= Len(t) /\ t[k] # NL}
         IN  IF K = {} THEN 0 ELSE EndOfLine(t, Max(K))

\* regexp.Match
Match(t, key) == \E i \in 1..Len(t) : MatchEnd(t, i, key) # 0

\* [A-Za-z0-9_]: the characters of a $name in a replacement template
IsWord(c) == c \in {"x", "0", "1", "2"}

RECURSIVE NameEnd(_, _)
NameEnd(t, i) ==
    IF i > Len(t) \/ ~IsWord(t[i]) THEN i ELSE NameEnd(t, i + 1)

\* Regexp.expand: $$ is a dollar, $name with an empty name is a raw dollar,
\* $0 (any name made of zeros) is the whole match, every other name is a group
\* the patterns do not have and expands to nothing.
RECURSIVE ExpandFrom(_, _, _)
ExpandFrom(tpl, i, m) ==
    IF i > Len(tpl) THEN <<>>
    ELSE IF tpl[i] # "$" THEN <<tpl[i]>> \o ExpandFrom(tpl, i + 1, m)
    ELSE IF i + 1 <= Len(tpl) /\ tpl[i + 1] = "$"
         THEN <<"$">> \o ExpandFrom(tpl, i + 2, m)
    ELSE LET j == NameEnd(tpl, i + 1)
         IN  IF j = i + 1 THEN <<"$">> \o ExpandFrom(tpl, i + 1, m)
             ELSE (IF \A k \in (i + 1)..(j - 1) : tpl[k] = "0" THEN m ELSE <<>>)
                  \o ExpandFrom(tpl, j, m)

Expand(tpl, m) == ExpandFrom(tpl, 1, m)

\* Regexp.ReplaceAll for (?m)^<key>\s*.+$ : every match, left to right, replaced
\* by the expanded template
RECURSIVE ReplaceAllFrom(_, _, _, _)
ReplaceAllFrom(t, i, key, repl) ==
    IF i > Len(t) THEN <<>>
    ELSE LET e == MatchEnd(t, i, key)
         IN  IF e = 0 THEN <<t[i]>> \o ReplaceAllFrom(t, i + 1, key, repl)
             ELSE Expand(repl, SubSeq(t, i, e)) \o ReplaceAllFrom(t, e + 1, key, repl)

ReplaceAll(t, key, repl) == ReplaceAllFrom(t, 1, key, repl)

\* fmt %q (strconv.Quote) on the alphabet: double quotes around the text, a
\* backslash before a quote or a backslash, a newline written \n
RECURSIVE Escape(_)
Escape(s) ==
    IF s = <<>> THEN <<>>
    ELSE (CASE Head(s) \in {"\"", "\\"} -> <<"\\", Head(s)>>
            [] Head(s) = NL -> <<"\\", "n">>
            [] OTHER -> <<Head(s)>>) \o Escape(Tail(s))

Quote(s) == <<"\"">> \o Escape(s) \o <<"\"">>

-----------------------------------------------------------------------------
(* chart.go: UpdateChartVersion *)

\* fmt.Sprintf("version: %s", version)
VersionRepl(v) == <<KeyVersion, " ">> \o v

\* mutant: the value is written as it is (%s instead of %q)
AppVersionRepl_Unquoted(a) == <<KeyAppVersion, " ">> \o a

\* fmt.Sprintf("appVersion: %q", appVersion)
AppVersionRepl(a) == <<KeyAppVersion, " ">> \o Quote(a)

\* versionPattern.Match(data)
VersionFound(t) == Match(t, KeyVersion)

\* the appVersion branch, applied to the text whose version is already replaced
UpdateAppVersion(d, v, a) ==
    IF a = <<>> THEN d
    ELSE IF Match(d, KeyAppVersion)
         THEN ReplaceAll(d, KeyAppVersion, AppVersionRepl(a))
         ELSE ReplaceAll(d, KeyVersion, VersionRepl(v) \o <<NL>> \o AppVersionRepl(a))

\* the text UpdateChartVersion writes when the version pattern matched
PatchText(t, v, a) ==
    UpdateAppVersion(ReplaceAll(t, KeyVersion, VersionRepl(v)), v, a)

\* UpdateChartVersion on a Chart.yaml holding the bytes t: the outcomes the file
\* system allows, each with the error returned, the bytes the file holds
\* afterwards and whether os.WriteFile was called.  A failed write leaves the
\* file as it was or truncated.
UpdateChartVersion(t, v, a) ==
    {[err |-> "failed to read Chart.yaml", data |-> t, wrote |-> FALSE]}
    \cup
    (IF ~VersionFound(t)
     THEN {[err |-> "version field not found in Chart.yaml", data |-> t, wrote |-> FALSE]}
     ELSE {[err |-> "nil", data |-> PatchText(t, v, a), wrote |-> TRUE]}
          \cup {[err |-> "failed to write Chart.yaml", data |-> d, wrote |-> TRUE] :
                   d \in {t, <<>>}})

-----------------------------------------------------------------------------
(* chart.go: ParseChart, ValidateChart *)

\* the value yaml.Unmarshal gives the version field: what follows the key on
\* the first line that starts with it, without the blanks around it; empty
\* when no line starts with the key
RECURSIVE VersionField(_)
VersionField(t) ==
    IF t = <<>> THEN <<>>
    ELSE IF Head(t) = KeyVersion
         THEN LET rest == Tail(t)
                  stop == {k \in 1..Len(rest) : rest[k] = "\n"}
                  e == IF stop = {} THEN Len(rest)
                       ELSE (CHOOSE m \in stop : \A k \in stop : m <= k) - 1
                  v == SubSeq(rest, 1, e)
                  TrimL[i \in 1..(Len(v) + 1)] ==
                      IF i <= Len(v) /\ v[i] = " " THEN TrimL[i + 1] ELSE i
                  TrimR[i \in 0..Len(v)] ==
                      IF i >= 1 /\ v[i] = " " THEN TrimR[i - 1] ELSE i
              IN  SubSeq(v, TrimL[1], TrimR[Len(v)])
         ELSE LET nl == {k \in 1..Len(t) : t[k] = "\n"}
              IN  IF nl = {} THEN <<>>
                  ELSE VersionField(SubSeq(t, (CHOOSE m \in nl : \A k \in nl : m <= k) + 1,
                                           Len(t)))

\* the name and the apiVersion of the manifests: fields whose lines the
\* alphabet of the text does not spell out ("x" stands for them)
ChartHeads ==
    {[Name |-> <<"mychart">>, APIVersion |-> <<"v2">>],
     [Name |-> <<>>, APIVersion |-> <<"v2">>],
     [Name |-> <<"mychart">>, APIVersion |-> <<"v3">>]}

\* ParseChart on a Chart.yaml holding the bytes t: the file cannot be read, its
\* YAML cannot be parsed, or the fields are returned as they are; nothing is
\* validated
ParseChart(t) ==
    {[err |-> e, chart |-> [Name |-> <<>>, Version |-> <<>>, APIVersion |-> <<>>]] :
        e \in {"failed to read Chart.yaml", "failed to parse Chart.yaml"}}
    \cup
    {[err |-> "nil",
      chart |-> [Name |-> h.Name, Version |-> VersionField(t), APIVersion |-> h.APIVersion]] :
        h \in ChartHeads}

\* mutant: the version is looked at before the name
ValidateChart_VersionFirst(ch) ==
    IF ch.Version = <<>> THEN <<"chart version is required">>
    ELSE IF ch.Name = <<>> THEN <<"chart name is required">>
    ELSE IF ch.APIVersion = <<>> THEN <<"apiVersion is required">>
    ELSE IF ch.APIVersion # <<"v2">> /\ ch.APIVersion # <<"v1">>
         THEN <<"apiVersion must be v1 or v2, got: ">> \o ch.APIVersion
    ELSE <<>>

\* ValidateChart: the text of the error it returns, <<>> (nil) when the chart
\* is valid
ValidateChart(ch) ==
    IF ch.Name = <<>> THEN <<"chart name is required">>
    ELSE IF ch.Version = <<>> THEN <<"chart version is required">>
    ELSE IF ch.APIVersion = <<>> THEN <<"apiVersion is required">>
    ELSE IF ch.APIVersion # <<"v2">> /\ ch.APIVersion # <<"v1">>
         THEN <<"apiVersion must be v1 or v2, got: ">> \o ch.APIVersion
    ELSE <<>>

-----------------------------------------------------------------------------
(* plugin types: Config, ExecuteRequest, ExecuteResponse *)

\* a one-character word
W(c) == <<c>>

\* parseConfig's defaults
DefaultConfig ==
    [ChartPath |-> W("."),
     Repository |-> [Type |-> "oci", URL |-> <<>>, Username |-> <<>>, Password |-> <<>>],
     Version |-> [UpdateChart |-> TRUE, UpdateAppVersion |-> TRUE, AppVersionFormat |-> <<>>],
     Lint |-> TRUE,
     LintStrict |-> FALSE,
     TemplateValidate |-> TRUE,
     KubeVersion |-> <<>>,
     APIVersions |-> <<>>,
     Dependencies |-> [Update |-> TRUE, Build |-> TRUE],
     Sign |-> FALSE,
     SignKey |-> <<>>,
     Keyring |-> <<>>,
     PassphraseFile |-> <<>>,
     OutputDir |-> W(".helm-packages"),
     ContextPath |-> <<>>,
     DryRun |-> FALSE]

NoReq == [Hook |-> "none", Config |-> DefaultConfig, DryRun |-> FALSE, Version |-> <<>>]
NoChart == [Name |-> <<>>, Version |-> <<>>, APIVersion |-> <<>>]
NoResp == [Success |-> FALSE, Message |-> W("none"), Err |-> <<>>]
NoRet == [returned |-> FALSE, err |-> <<>>]
Closed == [file |-> FALSE, body |-> FALSE, size |-> -1]

\* the values the variables of the run keep under SpecPatch and SpecExtract
IdleRun ==
    /\ req = NoReq /\ cfg = DefaultConfig /\ pc = "idle" /\ hooksRun = <<>>
    /\ chart = NoChart /\ trace = <<>> /\ resp = NoResp
    /\ packagePath = <<>> /\ pushRet = NoRet /\ handles = Closed
    /\ ctx = "live" /\ child = "none"
    /\ logoutRet = NoRet /\ validateRet = NoRet

-----------------------------------------------------------------------------
(* SpecPatch: UpdateChartVersion on every small manifest *)

ManifestChars == {KeyVersion, KeyAppVersion, " ", NL, "x"}
Manifests == UNION {[1..n -> ManifestChars] : n \in 0..MaxLen}
Versions == {<<"1">>, <<"$", "0">>}
AppVersions == {<<>>, <<"2">>, <<"\"">>}

\* the values the variables of the other specifications keep under SpecPatch
IdleExtract == output = <<>> /\ exErr = "none" /\ exPath = <<>>

InitPatch ==
    /\ IdleExtract
    /\ IdleRun
    /\ data \in Manifests
    /\ orig = data
    /\ version \in Versions
    /\ appVersion \in AppVersions
    /\ patchErr = "none"
    /\ writes = 0
    /\ calls = 0

\* one call UpdateChartVersion(chartPath, version, appVersion)
UpdateChartVersionCall ==
    /\ calls < MaxCalls
    /\ \E o \in UpdateChartVersion(data, version, appVersion) :
           /\ data' = o.data
           /\ patchErr' = o.err
           /\ writes' = IF o.wrote THEN writes + 1 ELSE writes
    /\ calls' = calls + 1
    /\ UNCHANGED <<orig, version, appVersion, extractVars, runVars>>

NextPatch == UpdateChartVersionCall

SpecPatch == InitPatch /\ [][NextPatch]_vars

-----------------------------------------------------------------------------
(* Lines of a manifest, as the claims about UpdateChartVersion speak of them *)

\* strings.Split(t, "\n"): the pieces between the newlines
RECURSIVE SplitFrom(_, _, _)
SplitFrom(t, i, cur) ==
    IF i > Len(t) THEN <<cur>>
    ELSE IF t[i] = NL THEN <<cur>> \o SplitFrom(t, i + 1, <<>>)
    ELSE SplitFrom(t, i + 1, Append(cur, t[i]))

Lines(t) == SplitFrom(t, 1, <<>>)

\* a line that by itself matches ^<key>\s*.+$ : the key and at least one more character
IsKeyLine(l, key) == Len(l) >= 2 /\ l[1] = key

HasKeyLine(t, key) == \E i \in 1..Len(Lines(t)) : IsKeyLine(Lines(t)[i], key)

\* a version the replacement template copies literally
IsPlain(v) == \A i \in 1..Len(v) : v[i] # "$"

\* the state after one UpdateChartVersion call that returned nil
PatchedOnce == calls = 1 /\ patchErr = "nil"

\* C1 (as stated): when the manifest has a version line, every line that is
\* neither a version line nor (appVersion given) an appVersion line is kept,
\* byte for byte and in order, and every version line reads "version: <version>".
C1_OtherLinesUntouched ==
    (PatchedOnce /\ HasKeyLine(orig, KeyVersion) /\ IsPlain(version)) =>
        LET Other(l) == /\ ~IsKeyLine(l, KeyVersion)
                        /\ (appVersion = <<>> \/ ~IsKeyLine(l, KeyAppVersion))
            Ln == Lines(data)
        IN  /\ SelectSeq(Lines(orig), Other) = SelectSeq(Ln, Other)
            /\ \A i \in 1..Len(Ln) :
                   IsKeyLine(Ln[i], KeyVersion) => Ln[i] = VersionRepl(version)

\* C2 (as stated): when the manifest has a version line and no appVersion line
\* and an appVersion is given, the document gains exactly one line, the quoted
\* appVersion line, and it stands right after the version line.
C2_OneAppVersionLineInserted ==
    (/\ PatchedOnce /\ IsPlain(version) /\ appVersion # <<>>
     /\ HasKeyLine(orig, KeyVersion) /\ ~HasKeyLine(orig, KeyAppVersion)) =>
        LET Ln == Lines(data)
            At == {i \in 1..Len(Ln) : IsKeyLine(Ln[i], KeyAppVersion)}
        IN  /\ Cardinality(At) = 1
            /\ Len(Ln) = Len(Lines(orig)) + 1
            /\ \A i \in At : /\ Ln[i] = AppVersionRepl(appVersion)
                             /\ i > 1
                             /\ Ln[i - 1] = VersionRepl(version)

\* C3 (as stated): when no line of the manifest matches the version pattern, a
\* call that read the file fails with "version field not found", writes
\* nothing and leaves the file as it was.
C3_NoVersionLineFails ==
    (/\ calls = 1 /\ patchErr # "failed to read Chart.yaml"
     /\ ~HasKeyLine(orig, KeyVersion)) =>
        /\ patchErr = "version field not found in Chart.yaml"
        /\ writes = 0
        /\ data = orig

\* C18 (as stated): when more than one line of the manifest matches the
\* version pattern, only the first is rewritten and every later one is left as
\* it was; likewise for the appVersion pattern when an appVersion is given.
C18_FirstMatchOnly ==
    (PatchedOnce /\ IsPlain(version)) =>
        LET Lo == Lines(orig)
            Ln == Lines(data)
            V == {i \in 1..Len(Lo) : IsKeyLine(Lo[i], KeyVersion)}
            A == {i \in 1..Len(Lo) : IsKeyLine(Lo[i], KeyAppVersion)}
        IN  /\ (Cardinality(V) >= 2 /\ appVersion = <<>>) =>
                  /\ Len(Ln) = Len(Lo)
                  /\ Ln[Min(V)] = VersionRepl(version)
                  /\ \A i \in V \ {Min(V)} : Ln[i] = Lo[i]
            /\ (Cardinality(A) >= 2 /\ appVersion # <<>> /\ Cardinality(V) = 1) =>
                  /\ Len(Ln) = Len(Lo)
                  /\ Ln[Min(A)] = AppVersionRepl(appVersion)
                  /\ \A i \in A \ {Min(A)} : Ln[i] = Lo[i]

\* the lines of t that start with the key
KeyLines(t, key) ==
    {i \in 1..Len(Lines(t)) : Lines(t)[i] # <<>> /\ Lines(t)[i][1] = key}

-----------------------------------------------------------------------------
(* helm.go: extractPackagePath *)

\* strings.Contains(line, c)
Contains(l, c) == \E i \in 1..Len(l) : l[i] = c

\* strings.Index(line, c), counted from 1
Index(l, c) == Min({i \in 1..Len(l) : l[i] = c})

\* strings.TrimSpace
RECURSIVE TrimLeft(_)
TrimLeft(s) == IF s # <<>> /\ IsSpace(Head(s)) THEN TrimLeft(Tail(s)) ELSE s

RECURSIVE TrimRight(_)
TrimRight(s) ==
    IF s # <<>> /\ IsSpace(s[Len(s)]) THEN TrimRight(SubSeq(s, 1, Len(s) - 1)) ELSE s

TrimSpace(s) == TrimRight(TrimLeft(s))

\* mutant: the line is split at its last colon, a colon of the path included
PathAfterMarker_ColonSplit(l) ==
    TrimSpace(SubSeq(l, Max({i \in 1..Len(l) : l[i] \in {Marker, ":"}}) + 1, Len(l)))

\* mutant: the split point is the last marker of the line (strings.LastIndex)
PathAfterMarker_LastIndex(l) ==
    TrimSpace(SubSeq(l, Max({i \in 1..Len(l) : l[i] = Marker}) + 1, Len(l)))

\* path := strings.TrimSpace(line[idx+len("saved it to:"):])
PathAfterMarker(l) == TrimSpace(SubSeq(l, Index(l, Marker) + 1, Len(l)))

\* the loop over the lines, from line i on
RECURSIVE ScanLines(_, _)
ScanLines(ls, i) ==
    IF i > Len(ls)
    THEN [err |-> "could not determine package path from output", path |-> <<>>]
    ELSE IF Contains(ls[i], Marker)
         THEN [err |-> "nil", path |-> PathAfterMarker(ls[i])]
         ELSE ScanLines(ls, i + 1)

extractPackagePath(out) == ScanLines(Lines(out), 1)

-----------------------------------------------------------------------------
(* SpecExtract: extractPackagePath on every small output *)

OutputChars == {Marker, " ", NL, "x", ":"}
Outputs == UNION {[1..n -> OutputChars] : n \in 0..MaxOut}

\* the values the variables of the other specifications keep under SpecExtract
IdlePatch ==
    /\ data = <<>> /\ orig = <<>> /\ version = <<>> /\ appVersion = <<>>
    /\ patchErr = "none" /\ writes = 0 /\ calls = 0

InitExtract ==
    /\ IdlePatch
    /\ IdleRun
    /\ output \in Outputs
    /\ exErr = "none"
    /\ exPath = <<>>

ExtractCall ==
    /\ exErr = "none"
    /\ exErr' = extractPackagePath(output).err
    /\ exPath' = extractPackagePath(output).path
    /\ UNCHANGED <<output, patchVars, runVars>>

NextExtract == ExtractCall

SpecExtract == InitExtract /\ [][NextExtract]_vars

\* a run of n blanks
Blanks(n) == [i \in 1..n |-> " "]

\* p is s without the blanks at its two ends
IsTrimOf(p, s) ==
    /\ p = <<>> \/ (p[1] # " " /\ p[Len(p)] # " ")
    /\ \E a, b \in 0..Len(s) : s = Blanks(a) \o p \o Blanks(b)

\* C4: extractPackagePath fails exactly when the output holds no marker;
\* otherwise it returns the trimmed text between the first marker of the output
\* and the end of that marker's line, whatever follows on later lines.
C4_ExtractFirstMarker ==
    exErr # "none" =>
        LET M == {i \in 1..Len(output) : output[i] = Marker}
        IN  /\ (exErr # "nil") <=> (M = {})
            /\ M = {} => exPath = <<>>
            /\ M # {} =>
                 LET f == Min(M)
                     e == Min({k \in (f + 1)..(Len(output) + 1) :
                                  k = Len(output) + 1 \/ output[k] = NL})
                 IN  IsTrimOf(exPath, SubSeq(output, f + 1, e - 1))

\* C4 witness: the output has a marker line with a path and a later marker line
\* with another path, and the call returned the first
C4_Witness ==
    /\ exErr = "nil"
    /\ output = <<Marker, "x", NL, Marker, ":">>
    /\ exPath = <<"x">>

\* the first line of the output that holds the marker
MarkerLine ==
    LET ls == Lines(output)
    IN  ls[Min({i \in 1..Len(ls) : Contains(ls[i], Marker)})]

\* the line reads "... saved it to: P" for a path text P that does not start
\* with a blank; PathText is P
HasPathText ==
    /\ Contains(output, Marker)
    /\ LET k == Index(MarkerLine, Marker)
       IN  /\ Len(MarkerLine) >= k + 2
           /\ MarkerLine[k + 1] = " "
           /\ MarkerLine[k + 2] # " "

PathText == SubSeq(MarkerLine, Index(MarkerLine, Marker) + 2, Len(MarkerLine))

\* C19 (as stated): the extractor returns P as it stands, colons, embedded
\* spaces and trailing spaces preserved.
C19_PathPreserved ==
    (exErr # "none" /\ HasPathText) => (exErr = "nil" /\ exPath = PathText)

\* C19 (amended): the extractor returns P with its colons and embedded spaces
\* preserved and its trailing spaces removed; the text is split at the marker
\* only.
C19_PathTrimmed ==
    (exErr # "none" /\ HasPathText) =>
        /\ exErr = "nil"
        /\ exPath # <<>>
        /\ exPath[Len(exPath)] # " "
        /\ \E n \in 0..Len(PathText) : PathText = exPath \o Blanks(n)

\* C19 witness: the path holds an embedded space and a colon and is returned whole
C19_Witness ==
    /\ exErr = "nil"
    /\ output = <<Marker, " ", "x", " ", ":">>
    /\ exPath = <<"x", " ", ":">>

-----------------------------------------------------------------------------
(* external actions of a run, as the trace records them *)

\* step: which step of the run acted; kind: "write" (Chart.yaml), "mkdir",
\* "exec" (a helm subprocess), "open" (the artifact file), "http" (a request);
\* argv: the command line, the path, or the method and the address;
\* stdin: what the subprocess reads; auth: the basic-auth pair of a request;
\* ok: whether the code took the action to have succeeded; code: the response
\* status (0: none); body: the response body; length: the content length a
\* request declares, the byte size of a file opened (-1: none)
Event(s, k, a, in, au, o, c, b, n) ==
    [step |-> s, kind |-> k, argv |-> a, stdin |-> in, auth |-> au,
     ok |-> o, code |-> c, body |-> b, length |-> n]

ExecEvent(s, a, in, o) == Event(s, "exec", a, in, <<>>, o, 0, <<>>, -1)
FileEvent(s, k, path, o) == Event(s, k, <<path>>, <<>>, <<>>, o, 0, <<>>, -1)

\* the error of a helm subprocess that exits non-zero, of a failed file system
\* call and of a request that got no response
ExecErr == W("exit status 1")
FsErr == W("permission denied")
NetErr == W("connection refused")

\* mutant: the failure of a step is handed to the host as Execute's error
Failed_AsError(prefix, err) ==
    [Success |-> FALSE, Message |-> <<>>, Err |-> <<prefix>> \o err]

\* return &plugin.ExecuteResponse{Success: false, Message: fmt.Sprintf(prefix + "%v", err)}, nil
\* (Err is Execute's second value, <<>> for nil)
Failed(prefix, err) == [Success |-> FALSE, Message |-> <<prefix>> \o err, Err |-> <<>>]

\* return &plugin.ExecuteResponse{Success: true, Message: msg}, nil
Succeeded(msg) == [Success |-> TRUE, Message |-> msg, Err |-> <<>>]

-----------------------------------------------------------------------------
(* helm.go: the command lines of HelmCLI *)

LintArgv(chartPath, strict) ==
    <<W("helm"), W("lint"), chartPath>> \o (IF strict THEN <<W("--strict")>> ELSE <<>>)

RECURSIVE APIVersionFlags(_)
APIVersionFlags(apis) ==
    IF apis = <<>> THEN <<>>
    ELSE <<W("--api-versions"), Head(apis)>> \o APIVersionFlags(Tail(apis))

TemplateArgv(chartPath, kubeVersion, apis) ==
    <<W("helm"), W("template"), W("release-name"), chartPath>>
    \o (IF kubeVersion # <<>> THEN <<W("--kube-version"), kubeVersion>> ELSE <<>>)
    \o APIVersionFlags(apis)

DependencyUpdateArgv(chartPath) == <<W("helm"), W("dependency"), W("update"), chartPath>>
DependencyBuildArgv(chartPath) == <<W("helm"), W("dependency"), W("build"), chartPath>>

\* signOpts is non-nil exactly when cfg.Sign
PackageArgv(chartPath, c) ==
    <<W("helm"), W("package"), chartPath, W("-d"), c.OutputDir>>
    \o (IF c.Sign
        THEN <<W("--sign")>>
             \o (IF c.Keyring # <<>> THEN <<W("--keyring"), c.Keyring>> ELSE <<>>)
             \o (IF c.SignKey # <<>> THEN <<W("--key"), c.SignKey>> ELSE <<>>)
             \o (IF c.PassphraseFile # <<>>
                 THEN <<W("--passphrase-file"), c.PassphraseFile>> ELSE <<>>)
        ELSE <<>>)

-----------------------------------------------------------------------------
(* Repository: Push, pushOCI, pushChartMuseum, pushHTTP, registryLogin *)

OciPrefix == <<"oci:", "/", "/">>

\* strings.TrimPrefix
TrimPrefix(u, p) ==
    IF Len(u) >= Len(p) /\ SubSeq(u, 1, Len(p)) = p
    THEN SubSeq(u, Len(p) + 1, Len(u)) ELSE u

\* strings.SplitN(s, "/", 2)[0]
BeforeFirstSlash(u) ==
    IF Contains(u, "/") THEN SubSeq(u, 1, Index(u, "/") - 1) ELSE u

\* registryHost in pushOCI
RegistryHost(url) == BeforeFirstSlash(TrimPrefix(url, OciPrefix))

\* r.config.Username != "" && r.config.Password != ""
HasCredentials(r) == r.Username # <<>> /\ r.Password # <<>>

\* mutant: the password is handed over on the command line
LoginArgv_PasswordFlag(r, host) ==
    <<W("helm"), W("registry"), W("login"), host,
      W("--username"), r.Username, W("--password"), r.Password>>

LoginArgv(r, host) ==
    <<W("helm"), W("registry"), W("login"), host,
      W("--username"), r.Username, W("--password-stdin")>>

PushArgv(path, url) == <<W("helm"), W("push"), path, url>>

LogoutArgv(host) == <<W("helm"), W("registry"), W("logout"), host>>

\* mutant: the logout command runs whatever the type of the repository
Logout_AnyType(r) == <<LogoutArgv(RegistryHost(r.URL))>>

\* Repository.Logout: the command lines it runs, none when the type is not oci
Logout(r) == IF r.Type # "oci" THEN <<>> ELSE <<LogoutArgv(RegistryHost(r.URL))>>

\* mutant: the context path is put behind the collection path
ChartMuseumEndpoint_PrefixLast(url, contextPath) ==
    IF contextPath # <<>>
    THEN url \o W("/api/charts") \o W("/") \o contextPath
    ELSE url \o W("/api/charts")

\* endpoint in pushChartMuseum
ChartMuseumEndpoint(url, contextPath) ==
    IF contextPath # <<>>
    THEN url \o W("/") \o contextPath \o W("/api/charts")
    ELSE url \o W("/api/charts")

BasicAuth(r) == IF HasCredentials(r) THEN <<r.Username, r.Password>> ELSE <<>>

\* mutant: every 2xx status counts as success
ChartMuseumStatusOk_Any2xx(code) == code >= 200 /\ code < 300

\* pushChartMuseum: the status is neither StatusCreated nor StatusOK -> failure
ChartMuseumStatusOk(code) == ~(code # 201 /\ code # 200)

\* mutant: the upper end of the range is off by one
HTTPStatusOk_Through300(code) == ~(code < 200 \/ code > 300)

\* pushHTTP: the status is below 200 or at least 300 -> failure
HTTPStatusOk(code) == ~(code < 200 \/ code >= 300)

\* fmt.Errorf("upload failed with status %d: %s", resp.StatusCode, string(body))
UploadFailed(code, body) ==
    <<"upload failed with status ", ToString(code), ": ">> \o body

\* mutant: a failure without a response is reported as a failed upload
NoResponse_AsUploadFailed(err) == <<"upload failed with status ", "0", ": ">> \o err

\* fmt.Errorf("failed to push chart: %w", err): client.Do returned no response
NoResponse(err) == <<"failed to push chart: ">> \o err

\* mutant: pushHTTP leaves the content length unset, as pushChartMuseum does
ContentLength_Unset(here, size) == -1

\* the content length the request declares (-1: none is set):
\* req.ContentLength = stat.Size() in pushHTTP, nothing in pushChartMuseum
ContentLength(here, size) == IF here = "http_do" THEN size ELSE -1

\* mutant: the response body is left open
AfterDefers_BodyLeft(h) == [h EXCEPT !.file = FALSE, !.size = -1]

\* the handles after the deferred file.Close() and resp.Body.Close() have run
AfterDefers(h) == [file |-> FALSE, body |-> FALSE, size |-> -1]

\* mutant: a failed attempt is made again
AfterAttempt_Retry(here, ok) == IF ok THEN "push_ret" ELSE here

\* where a backend goes after its push command or its request: it returns,
\* whatever the outcome
AfterAttempt(here, ok) == "push_ret"

\* mutant: the error of os.Open is dropped
AfterOpen_Ignore(ok, next) == next

\* if err != nil { return fmt.Errorf("failed to open package: %w", err) }
AfterOpen(ok, next) == IF ok THEN next ELSE "push_ret"

\* mutant: the default case falls through to the generic upload
PushEntry_DefaultHTTP(t) ==
    CASE t = "oci" -> "oci_login"
      [] t = "chartmuseum" -> "cm_open"
      [] OTHER -> "http_open"

\* the switch of Push: where each repository type continues
PushEntry(t) ==
    CASE t = "oci" -> "oci_login"
      [] t = "chartmuseum" -> "cm_open"
      [] t = "http" -> "http_open"
      [] OTHER -> "push_ret"

\* fmt.Errorf("unsupported repository type: %s", r.config.Type)
Unsupported(t) == <<"unsupported repository type: ", t>>

-----------------------------------------------------------------------------
(* plugin: Execute, executePrePublish, executePostPublish *)

VersionToken == "{{.Version}}"

\* strings.ReplaceAll(format, "{{.Version}}", version)
RECURSIVE SubstituteVersion(_, _)
SubstituteVersion(f, v) ==
    IF f = <<>> THEN <<>>
    ELSE (IF Head(f) = VersionToken THEN v ELSE <<Head(f)>>) \o SubstituteVersion(Tail(f), v)

\* the appVersion executePrePublish passes to UpdateChartVersion
AppVersionArg(c, v) ==
    IF ~c.Version.UpdateAppVersion THEN <<>>
    ELSE IF c.Version.AppVersionFormat # <<>>
         THEN SubstituteVersion(c.Version.AppVersionFormat, v)
         ELSE v

\* chartPath := cfg.ChartPath, "." when empty
ChartPathOf(c) == IF c.ChartPath = <<>> THEN W(".") ELSE c.ChartPath

\* filepath.Join(outputDir, fmt.Sprintf("%s-%s.tgz", chart.Name, version))
DryRunPackagePath(c, ch, v) == c.OutputDir \o W("/") \o ch.Name \o W("-") \o v \o W(".tgz")

\* mutant: the request's flag is dropped, the configuration alone decides
MergeDryRun_ConfigOnly(c, dry) == c.DryRun

\* cfg.DryRun = cfg.DryRun || req.DryRun
MergeDryRun(c, dry) == c.DryRun \/ dry

\* mutant: a step runs whether or not its flag is set
Performs_IgnoreFlag(flag, dry) == ~dry

\* mutant: a step runs whether or not the run is a dry run
Performs_IgnoreDryRun(flag, dry) == flag

\* if <flag> { if cfg.DryRun { logger.Info("[DRY-RUN] ...") } else { <the step> } };
\* the steps of executePostPublish have no flag: if !cfg.DryRun { <the step> }
Performs(flag, dry) == flag /\ ~dry

\* the hooks in the order the host's release lifecycle reaches them
Hooks == <<"PrePublish", "PostPublish", "OnSuccess">>
HookRank(h) == CHOOSE i \in 1..Len(Hooks) : Hooks[i] = h

\* mutant: template validation runs before lint
NextStep_TemplateFirst(p) ==
    CASE p = "update" -> "dep_update"
      [] p = "dep_update" -> "dep_build"
      [] p = "dep_build" -> "template"
      [] p = "template" -> "lint"
      [] p = "lint" -> "pre_return"
      [] p = "mkdir" -> "package"
      [] p = "package" -> "push"
      [] p = "push" -> "post_return"

\* the order of the steps of executePrePublish and of executePostPublish
NextStep(p) ==
    CASE p = "update" -> "dep_update"
      [] p = "dep_update" -> "dep_build"
      [] p = "dep_build" -> "lint"
      [] p = "lint" -> "template"
      [] p = "template" -> "pre_return"
      [] p = "mkdir" -> "package"
      [] p = "package" -> "push"
      [] p = "push" -> "post_return"

\* mutant: the error is dropped and the run goes on
OnError_Continue(ok, next, stop) == next

\* if err != nil { return &plugin.ExecuteResponse{Success: false, ...}, nil }
OnError(ok, next, stop) == IF ok THEN next ELSE stop

\* mutant: a step that fails puts Chart.yaml back as it was before the update
ChartAfter_Restore(d, o, ok) == IF ok THEN d ELSE o

\* Chart.yaml after a step other than the manifest update has acted: the step
\* does not touch the file, and on its error the hook returns the failure at
\* once, undoing nothing
ChartAfter(d, o, ok) == d

\* mutant: a failed login does not stop the push
AfterLogin_Ignore(ok) == "oci_push"

\* pushOCI: if err := r.registryLogin(...); err != nil { return ... }
AfterLogin(ok) == IF ok THEN "oci_push" ELSE "push_ret"

\* mutant: helm push is started without the context of the run
CtxBound_PushUnbound(st) == st # "push"

\* the calls that are started with the context of the run:
\* exec.CommandContext(ctx, "helm", ...) and http.NewRequestWithContext(ctx, ...)
CtxBound(st) ==
    st \in {"dep_update", "dep_build", "lint", "template", "package", "login", "push",
            "upload"}

\* the calls with a deadline of their own: &http.Client{Timeout: ...}
HasTimeout(st) == st = "upload"

\* the subprocess or request Execute waits for at position p under the
\* configuration c, "none" where it makes no such call
CallAt(p, c) ==
    CASE p = "dep_update" /\ Performs(c.Dependencies.Update, c.DryRun) -> "dep_update"
      [] p = "dep_build" /\ Performs(c.Dependencies.Build, c.DryRun) -> "dep_build"
      [] p = "lint" /\ Performs(c.Lint, c.DryRun) -> "lint"
      [] p = "template" /\ Performs(c.TemplateValidate, c.DryRun) -> "template"
      [] p = "package" /\ Performs(TRUE, c.DryRun) -> "package"
      [] p = "oci_login" /\ HasCredentials(c.Repository) -> "login"
      [] p = "oci_push" -> "push"
      [] p \in {"cm_do", "http_do"} -> "upload"
      [] OTHER -> "none"

\* the call st runs: it is in flight, or it is started now; a call bound to a
\* context that is already cancelled is not started, Start and Do return the
\* context's error
Started(st) == child = st \/ ctx = "live" \/ ~CtxBound(st)

\* the outcomes of the call st, and the trace once it has returned
CallResults(st) == IF Started(st) THEN BOOLEAN ELSE {FALSE}
Traced(st, e) == IF Started(st) THEN Append(trace, e) ELSE trace

\* the message of the success response of a hook
SuccessMessage(hook, dry, name, v, url) ==
    IF hook = "PrePublish"
    THEN W("Chart ") \o name \o W(" validated successfully")
    ELSE (IF dry THEN W("[DRY-RUN] Would publish ") ELSE W("Published "))
         \o name \o W("@") \o v \o W(" to ") \o url

\* packagePath, err = helm.Package(ctx, outputDir, signOpts)
PackagedPath(ex) == ex.path

-----------------------------------------------------------------------------
(* Spec: the host executes hooks; each Execute runs its steps *)

RunManifests ==
    {<<KeyVersion, " ", "x", NL, "x", NL>>,
     <<KeyVersion, " ", "x", NL, KeyAppVersion, " ", "x", NL>>,
     <<KeyVersion, NL, KeyAppVersion, " ", "x", NL>>,
     <<"x", NL>>}
RunVersions == {W("1")}
RunOutputs ==
    {<<Marker, " ", "x", NL>>,
     <<"x", NL, Marker, " ", "x", ":", "x", NL, Marker, "x">>,
     <<"x", NL>>}
Formats == {<<>>, <<"x", VersionToken>>}
Statuses == {199, 200, 201, 202, 299, 300, 404, 500}
Bodies == {W("server error")}
Sizes == {0, 3}
Types == {"oci", "chartmuseum", "http", "unknown"}
URLs == {<<"oci:", "/", "/", "h", "/", "p">>, <<"https:", "/", "/", "h">>}
Credentials == {<<<<>>, <<>>>>, <<W("user"), W("secret")>>, <<W("user"), <<>>>>}

\* configurations that vary what executePrePublish reads
PreConfigs ==
    {[DefaultConfig EXCEPT
          !.Version = [UpdateChart |-> uc, UpdateAppVersion |-> ua, AppVersionFormat |-> f],
          !.Dependencies = [Update |-> du, Build |-> db],
          !.Lint = l, !.LintStrict = ls, !.TemplateValidate = tv, !.DryRun = dr] :
        uc \in BOOLEAN, ua \in BOOLEAN, f \in Formats, du \in BOOLEAN, db \in BOOLEAN,
        l \in BOOLEAN, ls \in BOOLEAN, tv \in BOOLEAN, dr \in BOOLEAN}

\* configurations that vary what executePostPublish reads
PostConfigs ==
    {[DefaultConfig EXCEPT
          !.Repository = [Type |-> t, URL |-> u, Username |-> cr[1], Password |-> cr[2]],
          !.Sign = sg, !.Keyring = IF sg THEN W("ring") ELSE <<>>,
          !.PassphraseFile = IF sg THEN W("passfile") ELSE <<>>,
          !.ContextPath = cp, !.DryRun = dr] :
        t \in Types, u \in URLs, cr \in Credentials, sg \in BOOLEAN,
        cp \in {<<>>, W("v1")}, dr \in BOOLEAN}

Configs == PreConfigs \cup PostConfigs

Init ==
    /\ IdleExtract
    /\ IdleRun
    /\ data \in RunManifests
    /\ orig = data
    /\ version = <<>> /\ appVersion = <<>> /\ patchErr = "none"
    /\ writes = 0 /\ calls = 0

\* HelmPlugin.Execute is entered: the host runs the next hook of its lifecycle
ExecuteWith(cs) ==
    /\ pc = "idle"
    /\ \E h \in {Hooks[i] : i \in 1..Len(Hooks)}, c \in cs, dry \in BOOLEAN,
          v \in RunVersions :
         /\ \A k \in 1..Len(hooksRun) : HookRank(hooksRun[k]) < HookRank(h)
         /\ req' = [Hook |-> h, Config |-> c, DryRun |-> dry, Version |-> v]
         /\ cfg' = [c EXCEPT !.DryRun = MergeDryRun(c, dry)]
         /\ hooksRun' = Append(hooksRun, h)
         /\ IF h \in {"PrePublish", "PostPublish"}
            THEN pc' = "parse" /\ resp' = NoResp
            ELSE /\ pc' = "done"
                 /\ resp' = Succeeded(<<"Hook ", h, " not handled by helm plugin">>)
    /\ UNCHANGED <<patchVars, extractVars, chart, trace, packagePath, pushRet, handles,
                   ctxVars, fnVars>>

Execute == ExecuteWith(Configs)

\* the response has reached the host: what the call held is gone, Chart.yaml stays
Returned ==
    /\ pc = "done"
    /\ pc' = "idle"
    /\ req' = NoReq /\ cfg' = DefaultConfig /\ resp' = NoResp
    /\ chart' = NoChart /\ trace' = <<>> /\ packagePath' = <<>>
    /\ pushRet' = NoRet /\ handles' = Closed
    /\ version' = <<>> /\ appVersion' = <<>> /\ patchErr' = "none"
    /\ output' = <<>> /\ exErr' = "none" /\ exPath' = <<>>
    /\ ctx' = "live"
    /\ UNCHANGED <<data, orig, writes, calls, hooksRun, child, fnVars>>

\* chart, err := ParseChart(chartPath), in both hooks
ParseChartStep ==
    /\ pc = "parse"
    /\ \E r \in ParseChart(data) :
         /\ pc' = OnError(r.err = "nil", IF req.Hook = "PrePublish" THEN "update" ELSE "mkdir",
                          "done")
         /\ IF pc' # "done"
            THEN chart' = r.chart /\ UNCHANGED resp
            ELSE chart' = chart /\ resp' = Failed("Failed to parse Chart.yaml: ", W(r.err))
    /\ UNCHANGED <<patchVars, extractVars, fnVars, ctxVars, req, cfg, hooksRun, trace, packagePath,
                   pushRet, handles>>

\* executePrePublish: "Update version in Chart.yaml"
UpdateStep ==
    /\ pc = "update"
    /\ IF ~Performs(cfg.Version.UpdateChart, cfg.DryRun)
       THEN /\ pc' = NextStep(pc)
            /\ UNCHANGED <<patchVars, trace, resp>>
       ELSE LET a == AppVersionArg(cfg, req.Version)
            IN  \E o \in UpdateChartVersion(data, req.Version, a) :
                  /\ data' = o.data
                  /\ patchErr' = o.err
                  /\ version' = req.Version
                  /\ appVersion' = a
                  /\ writes' = IF o.wrote THEN writes + 1 ELSE writes
                  /\ calls' = calls + 1
                  /\ trace' = IF o.wrote
                              THEN Append(trace, FileEvent("update", "write", W("Chart.yaml"), o.err = "nil"))
                              ELSE trace
                  /\ pc' = OnError(o.err = "nil", NextStep(pc), "done")
                  /\ resp' = IF pc' = "done"
                             THEN Failed("Failed to update Chart.yaml version: ", W(o.err))
                             ELSE resp
                  /\ UNCHANGED orig
    /\ UNCHANGED <<extractVars, fnVars, ctxVars, req, cfg, hooksRun, chart, packagePath, pushRet, handles>>

\* a step of executePrePublish that runs one helm command when its flag is set
\* and the run is no dry run
HelmStep(here, flag, argv, prefix) ==
    /\ pc = here
    /\ IF ~Performs(flag, cfg.DryRun)
       THEN /\ pc' = NextStep(pc)
            /\ UNCHANGED <<trace, resp, data>>
       ELSE \E ok \in CallResults(here) :
              /\ trace' = Traced(here, ExecEvent(here, argv, <<>>, ok))
              /\ pc' = OnError(ok, NextStep(pc), "done")
              /\ resp' = IF pc' = "done" THEN Failed(prefix, ExecErr) ELSE resp
              /\ data' = ChartAfter(data, orig, ok)
    /\ child' = "none"
    /\ UNCHANGED <<patchArgs, extractVars, fnVars, ctx, req, cfg, hooksRun, chart, packagePath,
                   pushRet, handles>>

DependencyUpdateStep ==
    HelmStep("dep_update", cfg.Dependencies.Update,
             DependencyUpdateArgv(ChartPathOf(cfg)), "Failed to update dependencies: ")

DependencyBuildStep ==
    HelmStep("dep_build", cfg.Dependencies.Build,
             DependencyBuildArgv(ChartPathOf(cfg)), "Failed to build dependencies: ")

LintStep ==
    HelmStep("lint", cfg.Lint,
             LintArgv(ChartPathOf(cfg), cfg.LintStrict), "Chart linting failed: ")

TemplateStep ==
    HelmStep("template", cfg.TemplateValidate,
             TemplateArgv(ChartPathOf(cfg), cfg.KubeVersion, cfg.APIVersions),
             "Template validation failed: ")

\* executePrePublish returns success
PrePublishReturn ==
    /\ pc = "pre_return"
    /\ pc' = "done"
    /\ resp' = Succeeded(SuccessMessage(req.Hook, cfg.DryRun, chart.Name, req.Version,
                                        cfg.Repository.URL))
    /\ UNCHANGED <<patchVars, extractVars, fnVars, ctxVars, req, cfg, hooksRun, chart, trace, packagePath,
                   pushRet, handles>>

\* executePostPublish: "Ensure output directory exists"
MkdirStep ==
    /\ pc = "mkdir"
    /\ IF ~Performs(TRUE, cfg.DryRun)
       THEN /\ pc' = NextStep(pc)
            /\ UNCHANGED <<trace, resp, data>>
       ELSE \E ok \in BOOLEAN :
              /\ trace' = Append(trace, FileEvent("mkdir", "mkdir", cfg.OutputDir, ok))
              /\ pc' = OnError(ok, NextStep(pc), "done")
              /\ resp' = IF pc' = "done"
                         THEN Failed("Failed to create output directory: ", FsErr)
                         ELSE resp
              /\ data' = ChartAfter(data, orig, ok)
    /\ UNCHANGED <<patchArgs, extractVars, fnVars, ctxVars, req, cfg, hooksRun, chart, packagePath,
                   pushRet, handles>>

\* executePostPublish: "Package chart"; HelmCLI.Package runs helm package and
\* hands its combined output to extractPackagePath
PackageStep ==
    /\ pc = "package"
    /\ IF ~Performs(TRUE, cfg.DryRun)
       THEN /\ packagePath' = DryRunPackagePath(cfg, chart, req.Version)
            /\ pc' = NextStep(pc)
            /\ UNCHANGED <<trace, resp, extractVars, data>>
       ELSE \E ok \in CallResults("package"),
                out \in IF Started("package") THEN RunOutputs ELSE {<<>>} :
              LET ex == extractPackagePath(out)
                  good == ok /\ ex.err = "nil"
              IN  /\ trace' = Traced("package", ExecEvent("package", PackageArgv(ChartPathOf(cfg), cfg), <<>>, ok))
                  /\ output' = out
                  /\ exErr' = IF ok THEN ex.err ELSE exErr
                  /\ exPath' = IF ok THEN ex.path ELSE exPath
                  /\ pc' = OnError(good, NextStep(pc), "done")
                  /\ packagePath' = IF good THEN PackagedPath(ex) ELSE <<>>
                  /\ data' = ChartAfter(data, orig, good)
                  /\ resp' = IF pc' # "done" THEN resp
                             ELSE IF ~ok
                                  THEN Failed("Failed to package chart: ",
                                              W("helm package failed: ") \o ExecErr \o <<NL>> \o out)
                                  ELSE Failed("Failed to package chart: ",
                                              W(ex.err) \o W(": ") \o out)
    /\ child' = "none"
    /\ UNCHANGED <<patchArgs, fnVars, ctx, req, cfg, hooksRun, chart, pushRet, handles>>

\* executePostPublish: "Push to repository"; Repository.Push switches on the type
PushStep ==
    /\ pc = "push"
    /\ IF ~Performs(TRUE, cfg.DryRun)
       THEN pc' = NextStep(pc) /\ UNCHANGED pushRet
       ELSE /\ pc' = PushEntry(cfg.Repository.Type)
            /\ pushRet' = IF pc' = "push_ret"
                          THEN [returned |-> TRUE, err |-> Unsupported(cfg.Repository.Type)]
                          ELSE pushRet
    /\ UNCHANGED <<patchVars, extractVars, fnVars, ctxVars, req, cfg, hooksRun, chart, trace, resp,
                   packagePath, handles>>

\* Push returns err (nil: <<>>) while it holds the handles h; its deferred Close
\* calls run
PushReturns(h, err) ==
    /\ pc' = "push_ret"
    /\ pushRet' = [returned |-> TRUE, err |-> err]
    /\ handles' = AfterDefers(h)

\* the one attempt of a backend (helm push, or the request) is over with err
Attempted(here, h, err) ==
    IF AfterAttempt(here, err = <<>>) = "push_ret"
    THEN PushReturns(h, err)
    ELSE pc' = AfterAttempt(here, err = <<>>) /\ UNCHANGED <<pushRet, handles>>

\* pushOCI: registry login when credentials are configured
OciLoginStep ==
    /\ pc = "oci_login"
    /\ LET r == cfg.Repository
       IN  IF ~HasCredentials(r)
           THEN pc' = "oci_push" /\ UNCHANGED <<trace, pushRet, handles>>
           ELSE \E ok \in CallResults("login") :
                  /\ trace' = Traced("login", ExecEvent("login", LoginArgv(r, RegistryHost(r.URL)),
                                                        r.Password, ok))
                  /\ IF AfterLogin(ok) = "oci_push"
                     THEN pc' = "oci_push" /\ UNCHANGED <<pushRet, handles>>
                     ELSE PushReturns(handles, W("registry login failed: ") \o ExecErr)
    /\ child' = "none"
    /\ UNCHANGED <<patchVars, extractVars, fnVars, ctx, req, cfg, hooksRun, chart, resp, packagePath>>

\* pushOCI: helm push
OciPushStep ==
    /\ pc = "oci_push"
    /\ \E ok \in CallResults("push") :
         /\ trace' = Traced("push", ExecEvent("push", PushArgv(packagePath, cfg.Repository.URL),
                                               <<>>, ok))
         /\ Attempted(pc, handles, IF ok THEN <<>> ELSE W("helm push failed: ") \o ExecErr)
    /\ child' = "none"
    /\ UNCHANGED <<patchVars, extractVars, fnVars, ctx, req, cfg, hooksRun, chart, resp, packagePath>>

\* pushChartMuseum / pushHTTP: os.Open(packagePath), and file.Stat() in pushHTTP;
\* the open event records the byte size of the file
OpenStep(here, next, withStat) ==
    /\ pc = here
    /\ \/ /\ trace' = Append(trace, FileEvent("open", "open", packagePath, FALSE))
          /\ IF AfterOpen(FALSE, next) = "push_ret"
             THEN PushReturns(handles, W("failed to open package: ") \o FsErr)
             ELSE pc' = AfterOpen(FALSE, next) /\ UNCHANGED <<pushRet, handles>>
       \/ \E n \in Sizes :
            /\ withStat
            /\ trace' = Append(trace, Event("open", "open", <<packagePath>>, <<>>, <<>>, TRUE,
                                            0, <<>>, n))
            /\ PushReturns([file |-> TRUE, body |-> FALSE, size |-> n],
                           W("failed to stat package: ") \o FsErr)
       \/ \E n \in Sizes :
            /\ trace' = Append(trace, Event("open", "open", <<packagePath>>, <<>>, <<>>, TRUE,
                                            0, <<>>, n))
            /\ handles' = [file |-> TRUE, body |-> FALSE, size |-> n]
            /\ pc' = AfterOpen(TRUE, next)
            /\ UNCHANGED pushRet
    /\ UNCHANGED <<patchVars, extractVars, fnVars, ctxVars, req, cfg, hooksRun, chart, resp, packagePath>>

ChartMuseumOpenStep == OpenStep("cm_open", "cm_do", FALSE)
HTTPOpenStep == OpenStep("http_open", "http_do", TRUE)

\* the status check of the backend whose upload stands at position here
StatusOk(here, code) ==
    IF here = "cm_do" THEN ChartMuseumStatusOk(code) ELSE HTTPStatusOk(code)

\* pushChartMuseum / pushHTTP: build the request, send it, judge the response;
\* a response comes with a body, which the backend holds open until it returns
UploadStep(here, method, url) ==
    /\ pc = here
    /\ \/ /\ child = "none"
          /\ PushReturns(handles, W("failed to create request: ") \o W("invalid URL"))
          /\ UNCHANGED trace
       \/ /\ trace' = Traced("upload", Event("upload", "http", <<W(method), url>>, <<>>,
                                              BasicAuth(cfg.Repository), FALSE, 0, <<>>,
                                              ContentLength(here, handles.size)))
          /\ Attempted(here, handles, NoResponse(NetErr))
       \/ \E code \in Statuses, body \in Bodies :
            /\ TRUE \in CallResults("upload")
            /\ trace' = Traced("upload", Event("upload", "http", <<W(method), url>>, <<>>,
                                              BasicAuth(cfg.Repository), StatusOk(here, code), code, body,
                                              ContentLength(here, handles.size)))
            /\ Attempted(here, [handles EXCEPT !.body = TRUE],
                         IF StatusOk(here, code) THEN <<>> ELSE UploadFailed(code, body))
    /\ child' = "none"
    /\ UNCHANGED <<patchVars, extractVars, fnVars, ctx, req, cfg, hooksRun, chart, resp, packagePath>>

ChartMuseumUploadStep ==
    UploadStep("cm_do", "POST", ChartMuseumEndpoint(cfg.Repository.URL, cfg.ContextPath))

HTTPUploadStep == UploadStep("http_do", "PUT", cfg.Repository.URL)

\* executePostPublish: if err := repo.Push(...); err != nil { return failure }
PushReturnStep ==
    /\ pc = "push_ret"
    /\ pc' = OnError(pushRet.err = <<>>, "post_return", "done")
    /\ resp' = IF pc' = "done" THEN Failed("Failed to push chart: ", pushRet.err) ELSE resp
    /\ data' = ChartAfter(data, orig, pushRet.err = <<>>)
    /\ UNCHANGED <<patchArgs, extractVars, fnVars, ctxVars, req, cfg, hooksRun, chart, trace, packagePath,
                   pushRet, handles>>

\* executePostPublish returns success
PostPublishReturn ==
    /\ pc = "post_return"
    /\ pc' = "done"
    /\ resp' = Succeeded(SuccessMessage(req.Hook, cfg.DryRun, chart.Name, req.Version,
                                        cfg.Repository.URL))
    /\ UNCHANGED <<patchVars, extractVars, fnVars, ctxVars, req, cfg, hooksRun, chart, trace, packagePath,
                   pushRet, handles>>

Next ==
    \/ Execute
    \/ Returned
    \/ ParseChartStep
    \/ UpdateStep
    \/ DependencyUpdateStep
    \/ DependencyBuildStep
    \/ LintStep
    \/ TemplateStep
    \/ PrePublishReturn
    \/ MkdirStep
    \/ PackageStep
    \/ PushStep
    \/ OciLoginStep
    \/ OciPushStep
    \/ ChartMuseumOpenStep
    \/ ChartMuseumUploadStep
    \/ HTTPOpenStep
    \/ HTTPUploadStep
    \/ PushReturnStep
    \/ PostPublishReturn

Spec == Init /\ [][Next]_vars

-----------------------------------------------------------------------------
(* SpecCancel: the host may cancel the context of a run; a subprocess or a  *)
(* request may be under way when it does                                    *)

\* all steps on, one address, each repository type with and without credentials
CancelConfigs ==
    {[DefaultConfig EXCEPT
          !.Repository = [Type |-> t, URL |-> <<"oci:", "/", "/", "h", "/", "p">>,
                          Username |-> cr[1], Password |-> cr[2]]] :
        t \in {"oci", "chartmuseum", "http"},
        cr \in {<<<<>>, <<>>>>, <<W("user"), W("secret")>>}}

ExecuteCancel == ExecuteWith(CancelConfigs)

\* the call of the current step has been started and has not returned: cmd.Run(),
\* cmd.CombinedOutput() or client.Do(req) is waiting
StartCall ==
    /\ child = "none"
    /\ CallAt(pc, cfg) # "none"
    /\ Started(CallAt(pc, cfg))
    /\ child' = CallAt(pc, cfg)
    /\ UNCHANGED <<patchVars, extractVars, req, cfg, pc, hooksRun, chart, trace, resp,
                   packagePath, pushRet, handles, ctx, fnVars>>

\* the host cancels the context of the run in progress
Cancel ==
    /\ pc \notin {"idle", "done"}
    /\ ctx = "live"
    /\ ctx' = "cancelled"
    /\ UNCHANGED <<patchVars, extractVars, req, cfg, pc, hooksRun, chart, trace, resp,
                   packagePath, pushRet, handles, child, fnVars>>

NextCancel ==
    \/ ExecuteCancel
    \/ Returned
    \/ StartCall
    \/ Cancel
    \/ ParseChartStep
    \/ UpdateStep
    \/ DependencyUpdateStep
    \/ DependencyBuildStep
    \/ LintStep
    \/ TemplateStep
    \/ PrePublishReturn
    \/ MkdirStep
    \/ PackageStep
    \/ PushStep
    \/ OciLoginStep
    \/ OciPushStep
    \/ ChartMuseumOpenStep
    \/ ChartMuseumUploadStep
    \/ HTTPOpenStep
    \/ HTTPUploadStep
    \/ PushReturnStep
    \/ PostPublishReturn

\* a step of the run in progress
RunStep ==
    \/ ParseChartStep
    \/ UpdateStep
    \/ DependencyUpdateStep
    \/ DependencyBuildStep
    \/ LintStep
    \/ TemplateStep
    \/ PrePublishReturn
    \/ MkdirStep
    \/ PackageStep
    \/ PushStep
    \/ OciLoginStep
    \/ OciPushStep
    \/ ChartMuseumOpenStep
    \/ ChartMuseumUploadStep
    \/ HTTPOpenStep
    \/ HTTPUploadStep
    \/ PushReturnStep
    \/ PostPublishReturn

\* nothing outside the goroutine of the run holds it: no call is under way, or
\* the call under way ends by its own deadline, or its context is cancelled
\* (the subprocess is killed, the request aborted)
Unblocked ==
    \/ child = "none"
    \/ HasTimeout(child)
    \/ ctx = "cancelled" /\ CtxBound(child)

\* the goroutine of the run keeps running; a call under way with a live
\* context and no deadline may take forever
Progress == Unblocked /\ RunStep

\* one manifest is enough: no step reads Chart.yaml after the update
InitCancel == Init /\ data = <<KeyVersion, " ", "x", NL, "x", NL>>

SpecCancel == InitCancel /\ [][NextCancel]_vars /\ WF_vars(Progress)

-----------------------------------------------------------------------------
(* Claims about Repository.Push *)

PushSteps == {"login", "push", "open", "upload"}
InsidePush == {"oci_login", "oci_push", "cm_open", "cm_do", "http_open", "http_do"}

\* the run called Push and Push has returned
PushReturned(t) == pushRet.returned /\ cfg.Repository.Type = t

LastEvent == trace[Len(trace)]

\* C5: Push on a repository type other than oci, chartmuseum and http returns
\* "unsupported repository type: <type>" and has opened no file, started no
\* subprocess and sent no request.
C5_UnsupportedTypeRejected ==
    (~cfg.DryRun /\ cfg.Repository.Type \notin {"oci", "chartmuseum", "http"}) =>
        /\ pc \notin InsidePush
        /\ \A i \in 1..Len(trace) : trace[i].step \notin PushSteps
        /\ pushRet.returned =>
               pushRet.err = <<"unsupported repository type: ", cfg.Repository.Type>>
        /\ (pushRet.returned /\ pc = "done") => ~resp.Success

C5_Witness ==
    /\ pc = "done"
    /\ pushRet.returned
    /\ cfg.Repository.Type = "unknown"
    /\ resp = [Success |-> FALSE,
               Message |-> <<"Failed to push chart: ", "unsupported repository type: ", "unknown">>,
               Err |-> <<>>]

\* the error text carries the status code and ends with the response body
CarriesStatusAndBody(err, e) ==
    /\ \E i \in 1..Len(err) : err[i] = ToString(e.code)
    /\ Len(err) >= Len(e.body)
    /\ SubSeq(err, Len(err) - Len(e.body) + 1, Len(err)) = e.body

\* Push on type t has returned after its request received a response
GotResponse(t) ==
    /\ PushReturned(t)
    /\ trace # <<>>
    /\ LastEvent.step = "upload"
    /\ LastEvent.code # 0

\* C6: a chartmuseum push whose request got a response succeeds exactly when the
\* status is 200 or 201; on every other status the error carries the status
\* code and the body.
C6_ChartMuseumStatus ==
    GotResponse("chartmuseum") =>
        /\ (pushRet.err = <<>>) <=> (LastEvent.code \in {200, 201})
        /\ LastEvent.code \notin {200, 201} => CarriesStatusAndBody(pushRet.err, LastEvent)
        /\ pc = "done" => (resp.Success <=> LastEvent.code \in {200, 201})

C6_Witness ==
    /\ GotResponse("chartmuseum")
    /\ LastEvent.code = 202
    /\ pc = "done"
    /\ ~resp.Success

\* C7: an http (PUT) push whose request got a response succeeds exactly when
\* the status is in 200..299; outside it the error carries the status code and
\* the body.
C7_HTTPStatus ==
    GotResponse("http") =>
        /\ (pushRet.err = <<>>) <=> (LastEvent.code \in 200..299)
        /\ LastEvent.code \notin 200..299 => CarriesStatusAndBody(pushRet.err, LastEvent)
        /\ pc = "done" => (resp.Success <=> LastEvent.code \in 200..299)

C7_Witness ==
    /\ GotResponse("http")
    /\ LastEvent.code = 300
    /\ LastEvent.argv[1] = W("PUT")
    /\ pc = "done"
    /\ ~resp.Success

\* h is the address u without a leading oci:// and cut before its first "/"
IsRegistryHostOf(h, u) ==
    LET hasPrefix == Len(u) >= 3 /\ u[1] = "oci:" /\ u[2] = "/" /\ u[3] = "/"
        rest == IF hasPrefix THEN [i \in 1..(Len(u) - 3) |-> u[i + 3]] ELSE u
    IN  /\ \A i \in 1..Len(h) : h[i] # "/"
        /\ Len(h) <= Len(rest)
        /\ \A i \in 1..Len(h) : h[i] = rest[i]
        /\ Len(h) = Len(rest) \/ rest[Len(h) + 1] = "/"

\* C8: in an oci push with username and password, a successful login on the
\* registry host comes before the push command; a failed login means no push
\* command and a "registry login failed" error; without credentials there is
\* no login and the push command runs directly.
C8_LoginBeforePush ==
    LET r == cfg.Repository
        both == r.Username # <<>> /\ r.Password # <<>>
        Logins == {i \in 1..Len(trace) : trace[i].step = "login"}
        Pushes == {i \in 1..Len(trace) : trace[i].step = "push"}
    IN  /\ \A p \in Pushes : both => \E l \in Logins : l < p /\ trace[l].ok
        /\ \A l \in Logins :
              /\ both
              /\ trace[l].argv[3] = W("login")
              /\ IsRegistryHostOf(trace[l].argv[4], r.URL)
              /\ ~trace[l].ok =>
                    /\ Pushes = {}
                    /\ pushRet.returned
                    /\ pushRet.err = <<"registry login failed: ">> \o ExecErr
                    /\ pc = "done" => ~resp.Success
        /\ PushReturned("oci") =>
              /\ both => Logins # {}
              /\ (\A l \in Logins : trace[l].ok) => Pushes # {}

C8_Witness ==
    /\ pc = "done"
    /\ cfg.Repository.Type = "oci"
    /\ Len(trace) >= 2
    /\ LastEvent.step = "login"
    /\ ~LastEvent.ok
    /\ LastEvent.argv[4] = W("h")
    /\ resp.Message = <<"Failed to push chart: ", "registry login failed: ">> \o ExecErr

-----------------------------------------------------------------------------
(* Claims about the order and the halting of the steps *)

\* the message prefix that names a step
FailurePrefix(st) ==
    CASE st = "update" -> "Failed to update Chart.yaml version: "
      [] st = "dep_update" -> "Failed to update dependencies: "
      [] st = "dep_build" -> "Failed to build dependencies: "
      [] st = "lint" -> "Chart linting failed: "
      [] st = "template" -> "Template validation failed: "
      [] st = "mkdir" -> "Failed to create output directory: "
      [] st = "package" -> "Failed to package chart: "
      [] st \in PushSteps -> "Failed to push chart: "

FailedWith(prefix) == pc = "done" /\ ~resp.Success /\ resp.Message[1] = prefix

\* C9: in a run, a failed action is the last action of the run: the run ends
\* Failed with the message of that step, and no later step acts.  The same
\* holds for the failures that come without an external action of their own
\* (Chart.yaml unreadable or without version, no path in the package output,
\* Push refusing or failing before a request).
C9_FailureHalts ==
    /\ \A i \in 1..Len(trace) :
          ~trace[i].ok =>
              /\ i = Len(trace)
              /\ pc \in {"push_ret", "done"}
              /\ pc = "push_ret" => pushRet.err # <<>>
              /\ pc = "done" => FailedWith(FailurePrefix(trace[i].step))
    /\ patchErr \notin {"none", "nil"} =>
          /\ FailedWith("Failed to update Chart.yaml version: ")
          /\ \A i \in 1..Len(trace) : trace[i].step = "update"
    /\ exErr \notin {"none", "nil"} =>
          /\ FailedWith("Failed to package chart: ")
          /\ LastEvent.step = "package"
    /\ pushRet.err # <<>> =>
          /\ pc \in {"push_ret", "done"}
          /\ pc = "done" => FailedWith("Failed to push chart: ")
    /\ (pc = "done" /\ resp.Success) => \A i \in 1..Len(trace) : trace[i].ok

C9_Witness ==
    /\ pc = "done"
    /\ ~resp.Success
    /\ ~cfg.DryRun
    /\ cfg.TemplateValidate
    /\ Len(trace) >= 2
    /\ LastEvent.step = "lint"
    /\ ~LastEvent.ok
    /\ resp.Message[1] = "Chart linting failed: "

StepRank(st) ==
    CASE st = "update" -> 1
      [] st = "dep_update" -> 2
      [] st = "dep_build" -> 3
      [] st = "lint" -> 4
      [] st = "template" -> 5
      [] st = "mkdir" -> 6
      [] st = "package" -> 7
      [] st \in {"login", "open"} -> 8
      [] st \in {"push", "upload"} -> 9

\* the artifact path an action of Push was given
PathArg(e) == IF e.step = "push" THEN e.argv[3] ELSE e.argv[1]

\* C10: the actions of a run occur in the order manifest update, dependency
\* update, dependency build, lint, template, packaging, push; every action of
\* Push comes after a successful helm package whose output yielded a path, and
\* Push works on exactly that path.
C10_StepOrder ==
    /\ \A i, j \in 1..Len(trace) :
          i < j => StepRank(trace[i].step) < StepRank(trace[j].step)
    /\ \A i \in 1..Len(trace) :
          trace[i].step \in PushSteps =>
              /\ \E j \in 1..(i - 1) : trace[j].step = "package" /\ trace[j].ok
              /\ exErr = "nil"
              /\ trace[i].step \in {"push", "open"} => PathArg(trace[i]) = exPath
    /\ pc \in InsidePush =>
          /\ exErr = "nil"
          /\ packagePath = exPath
          /\ \E j \in 1..Len(trace) : trace[j].step = "package" /\ trace[j].ok

C10_Witness ==
    /\ pc = "done"
    /\ resp.Success
    /\ req.Hook = "PostPublish"
    /\ hooksRun = <<"PrePublish", "PostPublish">>
    /\ output = <<"x", NL, Marker, " ", "x", ":", "x", NL, Marker, "x">>
    /\ Len(trace) = 4
    /\ trace[2].step = "package"
    /\ trace[4].step = "push"
    /\ trace[4].argv[3] = <<"x", ":", "x">>

-----------------------------------------------------------------------------
(* Claims about the flags of the steps *)

\* the steps that stand under a flag of Config, and that flag
FlaggedSteps == {"update", "dep_update", "dep_build", "lint", "template"}

StepFlag(c, st) ==
    CASE st = "update" -> c.Version.UpdateChart
      [] st = "dep_update" -> c.Dependencies.Update
      [] st = "dep_build" -> c.Dependencies.Build
      [] st = "lint" -> c.Lint
      [] st = "template" -> c.TemplateValidate

\* the position that follows a step of executePrePublish
Following(st) ==
    CASE st = "update" -> "dep_update"
      [] st = "dep_update" -> "dep_build"
      [] st = "dep_build" -> "lint"
      [] st = "lint" -> "template"
      [] st = "template" -> "pre_return"

\* every boolean switch of Config other than the dry-run mode is off
AllFlagsOff(c) ==
    /\ ~c.Version.UpdateChart /\ ~c.Version.UpdateAppVersion
    /\ ~c.Dependencies.Update /\ ~c.Dependencies.Build
    /\ ~c.Lint /\ ~c.LintStrict /\ ~c.TemplateValidate /\ ~c.Sign

\* C11 (as stated): every step, packaging and publish included, stands under a
\* configuration flag that skips it: a real run whose flags are all off
\* performs no action of any step.
C11_EveryStepGated ==
    (AllFlagsOff(cfg) /\ ~cfg.DryRun) => trace = <<>>

\* no action of a flagged step whose flag is off; a successful real PostPublish
\* run has packaged and has pushed whatever the flags are
C11_NoActionWhenOff ==
    /\ \A i \in 1..Len(trace) :
          trace[i].step \in FlaggedSteps => StepFlag(cfg, trace[i].step)
    /\ (pc = "done" /\ resp.Success /\ req.Hook = "PostPublish" /\ ~cfg.DryRun) =>
          /\ \E i \in 1..Len(trace) : trace[i].step = "package"
          /\ \E i \in 1..Len(trace) : trace[i].step \in {"push", "upload"}

\* a flagged step whose flag is off hands over to the next step: no action, no
\* response
C11_SkipAdvances ==
    \A st \in FlaggedSteps :
        (pc = st /\ ~StepFlag(cfg, st)) =>
            /\ pc' = Following(st)
            /\ trace' = trace
            /\ resp' = resp
            /\ data' = data

\* C11 (amended): manifest update, dependency update, dependency build, lint and
\* template validation each stand under a flag of the configuration; when the
\* flag is off the step's action is never performed in the run and the run
\* goes on to the next step without failing.  Packaging and publish stand under
\* no flag: every real PostPublish run that succeeds has performed both.
C11_FlaggedStepsGated == []C11_NoActionWhenOff /\ [][C11_SkipAdvances]_vars

\* C11 witness: a real PrePublish run with lint off and template validation on
\* has ended in success, having run helm template and never helm lint
C11_Witness ==
    /\ pc = "done"
    /\ resp.Success
    /\ req.Hook = "PrePublish"
    /\ ~cfg.DryRun
    /\ ~cfg.Lint
    /\ cfg.TemplateValidate
    /\ trace # <<>>
    /\ LastEvent.step = "template"
    /\ \A i \in 1..Len(trace) : trace[i].step # "lint"

-----------------------------------------------------------------------------
(* Claims about the manifest after the update step *)

\* the manifest update of the current run has rewritten Chart.yaml
Rewritten == patchErr = "nil"

\* after the rewrite the file holds the text UpdateChartVersion wrote, with the
\* line of the new version, whatever the run has done since and however it ended
C12_Kept ==
    Rewritten =>
        /\ data = PatchText(orig, version, appVersion)
        /\ \E i \in 1..Len(Lines(data)) : Lines(data)[i] = VersionRepl(version)

\* no step other than the manifest update changes the file, in this run or in
\* a later one
C12_OnlyUpdateWrites == pc # "update" => data' = data

\* C12: there is no rollback: once the manifest update has rewritten Chart.yaml
\* in a real run, the file keeps the new version text in every later state of
\* the run, also when a later step fails and the run ends Failed; the
\* packaging and the push of the PostPublish run leave it alone as well.
C12_NoRollback == []C12_Kept /\ [][C12_OnlyUpdateWrites]_vars

\* C12 witness: the run rewrote the manifest, helm lint then failed, the run has
\* ended Failed and the file holds the new version
C12_Witness ==
    /\ pc = "done"
    /\ ~resp.Success
    /\ Rewritten
    /\ Len(trace) >= 2
    /\ trace[1].step = "update"
    /\ LastEvent.step = "lint"
    /\ ~LastEvent.ok
    /\ data # orig
    /\ Lines(data)[1] = <<KeyVersion, " ", "1">>

-----------------------------------------------------------------------------
(* Claims about dry-run *)

\* a run is under way or has ended, and it is a dry run: by the request or by
\* the configuration
DryRunMode == pc # "idle" /\ (req.DryRun \/ req.Config.DryRun)

\* ParseChart has returned a chart to the current run
Parsed == chart # NoChart

\* C13: a dry run performs no subprocess, no request, no write of Chart.yaml
\* and no creation of the output directory, whatever the step flags and the
\* repository settings are, and once ParseChart has returned the chart it ends
\* in success.
C13_DryRunNoEffects ==
    DryRunMode =>
        /\ trace = <<>>
        /\ patchErr = "none"
        /\ exErr = "none"
        /\ ~pushRet.returned
        /\ pc \notin InsidePush
        /\ (pc = "done" /\ Parsed) => resp.Success

\* C13 witness: a dry PostPublish run on a repository of unknown type, after a
\* PrePublish run, has ended in success with no external action
C13_Witness ==
    /\ DryRunMode
    /\ pc = "done"
    /\ hooksRun = <<"PrePublish", "PostPublish">>
    /\ Parsed
    /\ cfg.Repository.Type = "unknown"
    /\ resp.Success
    /\ trace = <<>>
    /\ data = orig

\* the success message the same hook gives the same inputs in the other mode
OtherModeMessage ==
    SuccessMessage(req.Hook, ~cfg.DryRun, chart.Name, req.Version, cfg.Repository.URL)

\* C14 (as stated): for PrePublish and for PostPublish, the success message of
\* a dry run differs from the success message of a real run on the same
\* inputs, the dry-run message carrying a prefix of its own.
C14_DryRunMessageDistinct ==
    (pc = "done" /\ resp.Success /\ req.Hook \in {"PrePublish", "PostPublish"}) =>
        /\ resp.Message # OtherModeMessage
        /\ cfg.DryRun <=> resp.Message[1] = "[DRY-RUN] Would publish "

-----------------------------------------------------------------------------
(* Claims about configuration and validation errors *)

Handled == req.Hook \in {"PrePublish", "PostPublish"}

\* the chart the run parsed lacks a required field
LacksRequiredField == Parsed /\ ValidateChart(chart) # <<>>

\* the run is to publish to a repository type Push does not know
UnsupportedKind ==
    /\ req.Hook = "PostPublish"
    /\ Parsed
    /\ cfg.Repository.Type \notin {"oci", "chartmuseum", "http"}

\* C15 (as stated): a dry run whose manifest cannot be read, whose manifest
\* lacks a required field or whose repository type is unsupported ends in
\* failure, and no external tool or request can fail in it because none runs.
C15_DryRunConfigErrors ==
    (DryRunMode /\ Handled /\ pc = "done") =>
        /\ ~Parsed => ~resp.Success
        /\ LacksRequiredField => ~resp.Success
        /\ UnsupportedKind => ~resp.Success
        /\ trace = <<>>

\* C16 (as stated): in a real run a missing manifest, a manifest lacking a
\* required field and an unsupported repository type are reported as the run's
\* failure before any write of Chart.yaml, subprocess or request of the run.
C16_ConfigErrorsFirst ==
    (pc # "idle" /\ ~DryRunMode /\ Handled) =>
        /\ (pc = "done" /\ ~Parsed) => (~resp.Success /\ trace = <<>>)
        /\ (LacksRequiredField \/ UnsupportedKind) =>
              /\ trace = <<>>
              /\ patchErr = "none"
              /\ pc = "done" => ~resp.Success

-----------------------------------------------------------------------------
(* Claims about logout *)

\* C17 (as stated): a publish run on an oci repository that reached the push
\* has run the logout command exactly once when it ends, after the login and
\* the push, and a failed logout leaves a successful publish successful.
C17_LogoutOnce ==
    (/\ pc = "done" /\ req.Hook = "PostPublish" /\ cfg.Repository.Type = "oci"
     /\ \E i \in 1..Len(trace) : trace[i].step \in {"login", "push"}) =>
        LET Outs == {i \in 1..Len(trace) : trace[i].step = "logout"}
        IN  /\ Cardinality(Outs) = 1
            /\ \A i \in Outs :
                  /\ <<trace[i].argv>> = Logout(cfg.Repository)
                  /\ \A j \in 1..Len(trace) :
                        trace[j].step \in {"login", "push"} => j < i
            /\ (\A j \in 1..Len(trace) : trace[j].step # "logout" => trace[j].ok) =>
                  resp.Success

-----------------------------------------------------------------------------
(* Claims about secrets *)

\* what the file named by passphrase_file holds; the plugin never reads it
Passphrase == W("passphrase")

\* the secret values of a run: the repository password and the passphrase
SecretsOf(c) == {c.Repository.Password, Passphrase} \ {<<>>}

NoSecretIn(argv, c) == \A k \in 1..Len(argv) : argv[k] \notin SecretsOf(c)

\* C20: no command line of a subprocess of the run (login, push, package,
\* lint, template, dependency), nor the command line of logout, holds the
\* repository password or the passphrase; the login command reads the
\* password from its standard input, and no other command is given any input.
C20_NoSecretInArgv ==
    /\ \A i \in 1..Len(trace) :
          trace[i].kind = "exec" =>
              /\ NoSecretIn(trace[i].argv, cfg)
              /\ trace[i].step = "login" =>
                    /\ trace[i].stdin = cfg.Repository.Password
                    /\ \E k \in 1..Len(trace[i].argv) :
                          trace[i].argv[k] = W("--password-stdin")
              /\ trace[i].step # "login" => trace[i].stdin = <<>>
    /\ \A k \in 1..Len(Logout(cfg.Repository)) :
          NoSecretIn(Logout(cfg.Repository)[k], cfg)

\* C20 witness: a signed package, a login with the password on standard input
\* and a push have run, and the run has ended in success
C20_Witness ==
    /\ pc = "done"
    /\ resp.Success
    /\ cfg.Sign
    /\ cfg.Repository.Password = W("secret")
    /\ Len(trace) = 4
    /\ trace[2].step = "package"
    /\ \E k \in 1..Len(trace[2].argv) : trace[2].argv[k] = W("--passphrase-file")
    /\ trace[3].step = "login"
    /\ trace[3].stdin = W("secret")
    /\ trace[4].step = "push"

-----------------------------------------------------------------------------
(* Claims about the attempts, the requests and the handles of Push *)

CountStep(st) == Cardinality({i \in 1..Len(trace) : trace[i].step = st})

\* at most one login, one push command, one open and one request, and never
\* both a push command and a request
C21_OneAttempt ==
    /\ CountStep("login") <= 1
    /\ CountStep("open") <= 1
    /\ CountStep("push") + CountStep("upload") <= 1
    /\ \A i, j \in 1..Len(trace) :
          (trace[i].step = "login" /\ trace[j].step = "push") => i < j

\* once Push has returned, the run performs no further action and Push is not
\* entered again
C21_NoSecondPush ==
    (pushRet.returned /\ pc' # "idle") =>
        (trace' = trace /\ pushRet' = pushRet /\ pc' \notin InsidePush \cup {"push"})

\* C21: the publisher never retries: one call of Push makes at most one upload
\* attempt (one request, or one push command after at most one login), and a
\* run calls Push at most once, whatever the outcome.
C21_NeverRetries == []C21_OneAttempt /\ [][C21_NoSecondPush]_vars

\* C21 witness: the one request of an http push got status 500 and the run has
\* ended Failed after it
C21_Witness ==
    /\ pc = "done"
    /\ ~resp.Success
    /\ cfg.Repository.Type = "http"
    /\ Len(trace) = 4
    /\ LastEvent.step = "upload"
    /\ LastEvent.code = 500
    /\ CountStep("upload") = 1

\* C23: the request of a chartmuseum push is a POST to base + "/api/charts",
\* and to base + "/" + prefix + "/api/charts" when a context path is configured.
C23_ChartMuseumEndpoint ==
    \A i \in 1..Len(trace) :
        (trace[i].step = "upload" /\ cfg.Repository.Type = "chartmuseum") =>
            /\ trace[i].argv[1] = <<"POST">>
            /\ cfg.ContextPath = <<>> =>
                  trace[i].argv[2] = cfg.Repository.URL \o <<"/api/charts">>
            /\ cfg.ContextPath # <<>> =>
                  trace[i].argv[2] =
                      cfg.Repository.URL \o <<"/">> \o cfg.ContextPath \o <<"/api/charts">>

C23_Witness ==
    /\ cfg.Repository.Type = "chartmuseum"
    /\ trace # <<>>
    /\ LastEvent.step = "upload"
    /\ LastEvent.argv = <<<<"POST">>, <<"https:", "/", "/", "h", "/", "v1", "/api/charts">>>>

C25_FailuresDistinct ==
    (/\ pushRet.returned /\ pushRet.err # <<>>
     /\ cfg.Repository.Type \in {"chartmuseum", "http"}
     /\ trace # <<>> /\ LastEvent.step = "upload") =>
        /\ LastEvent.code = 0 <=> pushRet.err[1] = "failed to push chart: "
        /\ LastEvent.code # 0 <=> pushRet.err[1] = "upload failed with status "
        /\ pc = "done" => resp.Message = <<"Failed to push chart: ">> \o pushRet.err

C25_Witness ==
    /\ pc = "done"
    /\ cfg.Repository.Type = "chartmuseum"
    /\ trace # <<>>
    /\ LastEvent.step = "upload"
    /\ LastEvent.code = 0
    /\ resp.Message = <<"Failed to push chart: ", "failed to push chart: ">> \o NetErr

\* C26: outside Push no artifact file and no response body is open: whichever
\* way Push returned, what it opened is closed, and nothing is open when the
\* run hands its outcome back.
C26_HandlesClosed ==
    /\ pc \notin InsidePush => (~handles.file /\ ~handles.body)
    /\ pushRet.returned => (~handles.file /\ ~handles.body)

\* C26 witness: an http push got a response with status 404, has returned its
\* error, and file and body are closed
C26_Witness ==
    /\ pc = "push_ret"
    /\ cfg.Repository.Type = "http"
    /\ LastEvent.step = "upload"
    /\ LastEvent.code = 404
    /\ pushRet.err # <<>>
    /\ ~handles.file
    /\ ~handles.body

\* C30: when os.Open fails in a chartmuseum or http push, Push returns "failed
\* to open package" and no request is made.
C30_OpenFailure ==
    \A i \in 1..Len(trace) :
        (trace[i].step = "open" /\ ~trace[i].ok) =>
            /\ i = Len(trace)
            /\ CountStep("upload") = 0
            /\ pc \in {"push_ret", "done"}
            /\ pushRet.err = <<"failed to open package: ">> \o FsErr
            /\ pc = "done" => ~resp.Success

C30_Witness ==
    /\ pc = "done"
    /\ cfg.Repository.Type = "chartmuseum"
    /\ trace # <<>>
    /\ LastEvent.step = "open"
    /\ ~LastEvent.ok
    /\ resp.Message = <<"Failed to push chart: ", "failed to open package: ">> \o FsErr

-----------------------------------------------------------------------------
(* SpecValidate: ValidateChart on every small chart *)

ChartNames == {<<>>, W("mychart"), W("a"), W("b")}
ChartVersions == {<<>>, W("1"), W("1.0.0"), W("x")}
ChartAPIVersions == {<<>>, W("v1"), W("v2"), W("v3"), W("V2")}

InitValidate ==
    /\ IdlePatch
    /\ IdleExtract
    /\ req = NoReq /\ cfg = DefaultConfig /\ pc = "idle" /\ hooksRun = <<>>
    /\ trace = <<>> /\ resp = NoResp
    /\ packagePath = <<>> /\ pushRet = NoRet /\ handles = Closed
    /\ ctx = "live" /\ child = "none"
    /\ logoutRet = NoRet /\ validateRet = NoRet
    /\ chart \in {[Name |-> n, Version |-> v, APIVersion |-> a] :
                     n \in ChartNames, v \in ChartVersions, a \in ChartAPIVersions}

\* one call ValidateChart(chart)
ValidateChartCall ==
    /\ ~validateRet.returned
    /\ validateRet' = [returned |-> TRUE, err |-> ValidateChart(chart)]
    /\ UNCHANGED <<patchVars, extractVars, req, cfg, pc, hooksRun, chart, trace, resp,
                   packagePath, pushRet, handles, ctxVars, logoutRet>>

NextValidate == ValidateChartCall

SpecValidate == InitValidate /\ [][NextValidate]_vars

AcceptedAPIVersions == {W("v1"), W("v2")}

\* C29: ValidateChart returns nil exactly for the charts whose name and
\* version are non-empty and whose apiVersion is v1 or v2; otherwise the
\* error is that of the first failing check in the order name, version,
\* missing apiVersion, unaccepted apiVersion, and the last message ends with
\* the apiVersion it rejects.
C29_ValidateChart ==
    validateRet.returned =>
        /\ validateRet.err = <<>> <=>
              /\ chart.Name # <<>>
              /\ chart.Version # <<>>
              /\ chart.APIVersion \in AcceptedAPIVersions
        /\ chart.Name = <<>> => validateRet.err = W("chart name is required")
        /\ (chart.Name # <<>> /\ chart.Version = <<>>) =>
              validateRet.err = W("chart version is required")
        /\ (chart.Name # <<>> /\ chart.Version # <<>> /\ chart.APIVersion = <<>>) =>
              validateRet.err = W("apiVersion is required")
        /\ (/\ chart.Name # <<>> /\ chart.Version # <<>>
            /\ chart.APIVersion \notin AcceptedAPIVersions \cup {<<>>}) =>
              validateRet.err = W("apiVersion must be v1 or v2, got: ") \o chart.APIVersion

\* a chart with every field invalid was validated and the name was reported
C29_Witness ==
    /\ validateRet.returned
    /\ chart.Name = <<>> /\ chart.Version = <<>> /\ chart.APIVersion = W("v3")
    /\ validateRet.err = W("chart name is required")

-----------------------------------------------------------------------------
(* SpecLogout: Repository.Logout on every small repository configuration *)

LogoutURLs ==
    URLs \cup {W("h"), <<"oci:", "/", "/", "h">>,
               <<"oci:", "/", "/", "h", "/", "p", "/", "q">>,
               <<"oci:", "/", "/", "r", ".", "io", "/", "p">>}

InitLogout ==
    /\ IdlePatch
    /\ IdleExtract
    /\ req = NoReq /\ pc = "idle" /\ hooksRun = <<>>
    /\ chart = NoChart /\ trace = <<>> /\ resp = NoResp
    /\ packagePath = <<>> /\ pushRet = NoRet /\ handles = Closed
    /\ ctx = "live" /\ child = "none"
    /\ logoutRet = NoRet /\ validateRet = NoRet
    /\ cfg \in {[DefaultConfig EXCEPT
                    !.Repository = [Type |-> t, URL |-> u, Username |-> cr[1],
                                    Password |-> cr[2]]] :
                   t \in Types, u \in LogoutURLs, cr \in Credentials}

\* one call repo.Logout(ctx) on the repository of cfg
LogoutCall ==
    /\ ~logoutRet.returned
    /\ LET cmds == Logout(cfg.Repository)
       IN  IF cmds = <<>>
           THEN /\ logoutRet' = [returned |-> TRUE, err |-> <<>>]
                /\ UNCHANGED trace
           ELSE \E ok \in BOOLEAN :
                  /\ trace' = Append(trace, ExecEvent("logout", cmds[1], <<>>, ok))
                  /\ logoutRet' = [returned |-> TRUE, err |-> IF ok THEN <<>> ELSE ExecErr]
    /\ UNCHANGED <<patchVars, extractVars, req, cfg, pc, hooksRun, chart, resp,
                   packagePath, pushRet, handles, ctxVars, validateRet>>

NextLogout == LogoutCall

SpecLogout == InitLogout /\ [][NextLogout]_vars

\* C28: Logout on a repository whose type is not oci returns nil and runs no
\* command and sends no request; on an oci repository it runs exactly
\* helm registry logout <host>, where <host> is the host registryLogin is
\* given: the URL without its oci:// prefix, up to the first "/".
C28_LogoutNoOp ==
    logoutRet.returned =>
        LET r == cfg.Repository
        IN  /\ r.Type # "oci" => (trace = <<>> /\ logoutRet.err = <<>>)
            /\ r.Type = "oci" =>
                  /\ Len(trace) = 1
                  /\ trace[1].kind = "exec"
                  /\ Len(trace[1].argv) = 4
                  /\ SubSeq(trace[1].argv, 1, 3) = <<W("helm"), W("registry"), W("logout")>>
                  /\ trace[1].argv[4] = LoginArgv(r, RegistryHost(r.URL))[4]
                  /\ IsRegistryHostOf(trace[1].argv[4], r.URL)

\* Logout ran on a repository that is not oci, with credentials configured
C28_Witness ==
    /\ logoutRet.returned
    /\ cfg.Repository.Type = "chartmuseum"
    /\ HasCredentials(cfg.Repository)
    /\ cfg.Repository.URL = <<"oci:", "/", "/", "h", "/", "p">>

-----------------------------------------------------------------------------
(* Claims about cancellation *)

LastTraced == trace'[Len(trace')]

\* the context is cancelled and the run has not returned
CancelPending == ctx = "cancelled" /\ pc # "done"

\* C27: once the context of a run is cancelled, no further subprocess or
\* request is started and the call under way, whichever it is, ends, so the
\* run eventually returns its response; and when a run has returned, no child
\* it started is left running.
C27_CancelReturns ==
    /\ [](pc = "done" => child = "none")
    /\ [][ctx = "cancelled" =>
            /\ child' = "none"
            /\ (child = "none" /\ Len(trace') > Len(trace)) =>
                  LastTraced.kind \notin {"exec", "http"}]_vars
    /\ (CancelPending ~> pc = "done")

\* the context is cancelled while helm push is under way
C27_Witness ==
    /\ ctx = "cancelled"
    /\ child = "push"
    /\ pc = "oci_push"

-----------------------------------------------------------------------------
(* Claims about the path of the package *)

\* C34 (as stated): whenever extractPackagePath returns nil, the path it
\* returns is not empty.
C34_PathNonEmpty == exErr = "nil" => exPath # <<>>

-----------------------------------------------------------------------------
(* Claims about repeated updates *)

\* a second UpdateChartVersion call with the same arguments returns nil after
\* a first one that did, on a manifest that had a version line
SecondCall ==
    /\ calls = 1 /\ patchErr = "nil"
    /\ HasKeyLine(orig, KeyVersion)
    /\ calls' = 2 /\ patchErr' = "nil"

\* C33 (as stated): for every manifest with a version line and every version
\* and appVersion, a second application of UpdateChartVersion with the same
\* arguments leaves the text the first application wrote.
C33_Idempotent == [][SecondCall => data' = data]_vars

-----------------------------------------------------------------------------
(* Claims about the appVersion of the update step *)

\* the lines of t that start with the appVersion key, in order
AppVersionLines(t) ==
    LET IsApp(l) == l # <<>> /\ l[1] = KeyAppVersion
    IN  SelectSeq(Lines(t), IsApp)

\* where the piece for f[i] starts in f with every {{.Version}} replaced by v
Offset(f, i, v) ==
    (i - 1) + (Len(v) - 1) * Cardinality({k \in 1..(i - 1) : f[k] = VersionToken})

\* a is f with every {{.Version}} replaced by v
IsSubstituted(a, f, v) ==
    /\ Len(a) = Offset(f, Len(f) + 1, v)
    /\ \A i \in 1..Len(f) :
          IF f[i] = VersionToken
          THEN SubSeq(a, Offset(f, i, v) + 1, Offset(f, i, v) + Len(v)) = v
          ELSE a[Offset(f, i, v) + 1] = f[i]

\* the appVersion the update step passed to UpdateChartVersion is the one
\* the configuration asks for
ArgAsConfigured ==
    LET f == cfg.Version.AppVersionFormat
        v == req.Version
    IN  /\ version = v
        /\ ~cfg.Version.UpdateAppVersion => appVersion = <<>>
        /\ (cfg.Version.UpdateAppVersion /\ f = <<>>) => appVersion = v
        /\ (cfg.Version.UpdateAppVersion /\ f # <<>>) => IsSubstituted(appVersion, f, v)

\* with update_app_version off, a successful update leaves the appVersion
\* lines of the manifest as they were and adds none
AppVersionLinesKept ==
    (~cfg.Version.UpdateAppVersion /\ patchErr = "nil") =>
        AppVersionLines(data) = AppVersionLines(orig)

\* C35 (as stated): when the update step has called UpdateChartVersion, the
\* appVersion it passed is empty if update_app_version is off, and then the
\* appVersion lines of the manifest are as they were and none is added;
\* otherwise it is the release version, or the configured format with every
\* {{.Version}} replaced by the release version.
C35_AppVersionArg == patchErr # "none" => (ArgAsConfigured /\ AppVersionLinesKept)

-----------------------------------------------------------------------------
(* Claims about the two dry-run flags *)

\* the write of Chart.yaml, the subprocesses, the requests and the file
\* system actions of the current run: none happened
NothingDone == trace = <<>> /\ patchErr = "none"

\* C31: the run is in dry-run mode exactly when the request's DryRun or the
\* configuration's dry_run is set; with either flag set, and in particular
\* with the request's flag set and the configuration's not, the run writes no
\* manifest and runs no subprocess and sends no request; with neither set a
\* PostPublish run that succeeds has acted.
C31_DryRunEitherFlag ==
    pc # "idle" =>
        /\ cfg.DryRun <=> (req.DryRun \/ req.Config.DryRun)
        /\ req.DryRun => NothingDone
        /\ req.Config.DryRun => NothingDone
        /\ (/\ ~req.DryRun /\ ~req.Config.DryRun
            /\ req.Hook = "PostPublish" /\ pc = "done" /\ resp.Success) => ~NothingDone

\* a PostPublish run the host asked to be dry, with dry_run off in the
\* configuration, has ended in success without acting
C31_Witness ==
    /\ req.DryRun /\ ~req.Config.DryRun
    /\ req.Hook = "PostPublish"
    /\ pc = "done"
    /\ resp.Success
    /\ NothingDone

-----------------------------------------------------------------------------
(* Claims about what Execute returns *)

\* something failed in the current run: ParseChart, UpdateChartVersion, a
\* subprocess, a file system call, the extraction of the path, or Push
StepFailed ==
    \/ req.Hook \in {"PrePublish", "PostPublish"} /\ ~Parsed
    \/ patchErr \notin {"none", "nil"}
    \/ exErr \notin {"none", "nil"}
    \/ pushRet.err # <<>>
    \/ \E i \in 1..Len(trace) : ~trace[i].ok

\* C32: whenever Execute has returned, its error is nil and the response
\* carries the success flag and a message; when a step of the run failed the
\* flag is false; for a hook other than PrePublish and PostPublish the flag
\* is true, the message says the hook is not handled, and the run wrote no
\* manifest, ran no subprocess and sent no request.
C32_OutcomeNotError ==
    pc = "done" =>
        /\ resp.Err = <<>>
        /\ resp.Message # <<>>
        /\ StepFailed => ~resp.Success
        /\ ~StepFailed => resp.Success
        /\ req.Hook \notin {"PrePublish", "PostPublish"} =>
              /\ resp.Success
              /\ resp.Message = <<"Hook ", req.Hook, " not handled by helm plugin">>
              /\ NothingDone

\* a run whose lint failed has returned a response with Success false and no
\* error
C32_Witness ==
    /\ pc = "done"
    /\ Len(trace) >= 1
    /\ LastEvent.step = "lint"
    /\ ~LastEvent.ok
    /\ ~resp.Success
    /\ resp.Err = <<>>
    /\ resp.Message = <<"Chart linting failed: ">> \o ExecErr

====
